---------------------------- MODULE Spec2Model ----------------------------
(***************************************************************************)
(* A model of weather-notifier: the unit-valued measures (measures.rs),    *)
(* the day-phase classifier and the forecast assembly                      *)
(* (forecast_client.rs), the flyability predicate, the period aggregator,  *)
(* the report formatter and the driver (main.rs).                          *)
(*                                                                         *)
(* Numbers.  An f32 quantity is modelled as an exact decimal with four     *)
(* fractional digits: the integer v stands for v / 10000 units.  Derived   *)
(* quantities are exact rationals <<q, r>> standing for q + r/den (in the  *)
(* same 1/10000 units, 0 <= r < den, den fixed per conversion), so the     *)
(* conversions and the rounding to 1/1000 are computed, not assumed; the   *)
(* binary rounding error of f32 arithmetic itself is not modelled.         *)
(* Timestamps are minutes in the forecast's fixed offset; a calendar date  *)
(* is the day number t \div 1440.                                          *)
(***************************************************************************)
EXTENDS Integers, Sequences, FiniteSets, TLC

VARIABLES
    args,       \* arguments of the function applied (SpecMeasures, SpecTod, ...)
    result,     \* Some(what the function returned), None before the call
    pc,         \* main's position
    sites,      \* app_config.sites
    chat_ids,   \* app_config.telegram.chat_ids
    today,      \* Utc::now() as a day number in the forecast's offset
    site_idx,   \* check_sites: index of the site being processed
    reports,    \* check_sites: the reports pushed so far
    message,    \* send_notifications: the message built
    user_idx,   \* send_notifications: index of the next recipient
    log         \* history of externally visible events, in order

vars == <<args, result, pc, sites, chat_ids, today, site_idx, reports,
          message, user_idx, log>>

driverVars == <<pc, sites, chat_ids, today, site_idx, reports, message,
                user_idx, log>>

\* Option<T>; result is None until the function applied has returned.
None == [none |-> TRUE]
Some(x) == [some |-> x]
IsSome(o) == "some" \in DOMAIN o

Range(s) == {s[i] : i \in DOMAIN s}

-----------------------------------------------------------------------------
(* measures.rs                                                             *)

\* v * a = q * b + r with 0 <= r < b, for v >= 0, without forming v * a.
RECURSIVE MulDiv(_, _, _)
MulDiv(v, a, b) ==
    IF v = 0 THEN <<0, 0>>
    ELSE LET h == MulDiv(v \div 2, a, b)
             d == 2 * h[2] + (IF v % 2 = 1 THEN a ELSE 0)
         IN  <<2 * h[1] + (d \div b), d % b>>

\* Comparison of two exact values with the same denominator.
RatGt(x, y) == x[1] > y[1] \/ (x[1] = y[1] /\ x[2] > y[2])

\* (x * 1000.0).round() of an exact value x = q + r/den in 1/10000 units:
\* x / 10 rounded to the nearest integer, halves away from zero (f32::round).
Round1000(x) ==
    IF x[1] >= 0 THEN (x[1] + 5) \div 10
    ELSE IF x[2] = 0 THEN 0 - ((5 - x[1]) \div 10)
    ELSE ((x[1] - 5) \div 10) + 1

C(v) == [unit |-> "C", v |-> v]
F(v) == [unit |-> "F", v |-> v]
MPH(v) == [unit |-> "MPH", v |-> v]
KMPH(v) == [unit |-> "KMPH", v |-> v]
MPS(v) == [unit |-> "MPS", v |-> v]

\* Temperature::celsius, denominator 5:  F(d) => d * 1.8 + 32.
celsius(t) ==
    IF t.unit = "C" THEN <<t.v, 0>>
    ELSE <<((9 * t.v) \div 5) + 320000, (9 * t.v) % 5>>

\* Temperature::fahrenheit, denominator 9:  C(d) => (d - 32) / 1.8.
fahrenheit(t) ==
    IF t.unit = "C" THEN <<(5 * (t.v - 320000)) \div 9, (5 * (t.v - 320000)) % 9>>
    ELSE <<t.v, 0>>

\* MPS_TO_KMPH = 3.6 = 18/5; MPS_TO_MPH = 2.236936 = 279617/125000;
\* MPH_TO_KMPH = 1.609344 = 25146/15625.
\* WindSpeed::meters_per_second, denominator 18 * 279617 = 5033106.
meters_per_second(w) ==
    CASE w.unit = "MPH" ->
            LET x == MulDiv(w.v, 125000, 279617) IN <<x[1], 18 * x[2]>>
      [] w.unit = "KMPH" ->
            LET x == MulDiv(w.v, 5, 18) IN <<x[1], 279617 * x[2]>>
      [] OTHER -> <<w.v, 0>>

\* WindSpeed::miles_per_hour, denominator 125000 * 25146 (r is left in the
\* conversion's own denominator: only q and r = 0 are read by the formatter).
miles_per_hour(w) ==
    CASE w.unit = "MPH" -> <<w.v, 0>>
      [] w.unit = "KMPH" -> MulDiv(w.v, 15625, 25146)
      [] OTHER -> MulDiv(w.v, 279617, 125000)

\* impl PartialEq for Temperature
TempEq(a, b) == Round1000(celsius(a)) = Round1000(celsius(b))

\* impl PartialOrd for Temperature: partial_cmp
TempCmp(a, b) ==
    IF TempEq(a, b) THEN "Equal"
    ELSE IF RatGt(celsius(a), celsius(b)) THEN "Greater"
    ELSE "Less"

TempGt(a, b) == TempCmp(a, b) = "Greater"
TempLt(a, b) == TempCmp(a, b) = "Less"

\* impl PartialEq for WindSpeed
WindEq(a, b) == Round1000(meters_per_second(a)) = Round1000(meters_per_second(b))

\* WindSpeed::partial_cmp without the rounded equality test first.
WindCmp_Unrounded(a, b) ==
    IF meters_per_second(a) = meters_per_second(b) THEN "Equal"
    ELSE IF RatGt(meters_per_second(a), meters_per_second(b)) THEN "Greater"
    ELSE "Less"

\* impl PartialOrd for WindSpeed: partial_cmp
WindCmp(a, b) ==
    IF WindEq(a, b) THEN "Equal"
    ELSE IF RatGt(meters_per_second(a), meters_per_second(b)) THEN "Greater"
    ELSE "Less"

WindGt(a, b) == WindCmp(a, b) = "Greater"
WindLt(a, b) == WindCmp(a, b) = "Less"

IsWind(m) == m.unit \in {"MPH", "KMPH", "MPS"}

\* The canonical-unit value of a measure and its comparison, by type.
Canonical(m) == IF IsWind(m) THEN meters_per_second(m) ELSE celsius(m)
MeasureEq(a, b) == IF IsWind(a) THEN WindEq(a, b) ELSE TempEq(a, b)
MeasureCmp(a, b) == IF IsWind(a) THEN WindCmp(a, b) ELSE TempCmp(a, b)

-----------------------------------------------------------------------------
(* Measure comparison as a function of its inputs (SpecMeasures)           *)

\* Wind speeds in all three units and Celsius temperatures (the only
\* temperatures the program constructs, forecast_client.rs:118-119), chosen
\* on both sides of the 1/1000 rounding steps and across units.
WindSamples ==
    {MPS(20000), MPS(20004), MPS(20005), MPS(20014), MPS(44704),
     KMPH(72000), KMPH(72018), KMPH(160934), MPH(100000), MPH(44739)}

TempSamples ==
    {C(0 - 25000), C(0 - 15), C(0 - 5), C(0 - 4), C(0), C(4), C(5),
     C(100000), C(100004), C(100005)}

MeasureTriples ==
    {<<a, b, c>> : a \in WindSamples, b \in WindSamples, c \in WindSamples}
    \cup {<<a, b, c>> : a \in TempSamples, b \in TempSamples, c \in TempSamples}

\* a == b is eq; a < b and a > b are PartialOrd's provided lt and gt, which
\* match partial_cmp against Some(Less) and Some(Greater).
Compared(a, b) ==
    [eq |-> MeasureEq(a, b),
     lt |-> MeasureCmp(a, b) = "Less",
     gt |-> MeasureCmp(a, b) = "Greater"]

InitIdleDriver ==
    /\ pc = "idle"
    /\ sites = <<>>
    /\ chat_ids = <<>>
    /\ today = 0
    /\ site_idx = 0
    /\ reports = <<>>
    /\ message = <<>>
    /\ user_idx = 0
    /\ log = <<>>

InitMeasures ==
    /\ \E t \in MeasureTriples : args = [a |-> t[1], b |-> t[2], c |-> t[3]]
    /\ result = None
    /\ InitIdleDriver

Compare ==
    /\ result = None
    /\ "a" \in DOMAIN args
    /\ result' = Some([ab |-> Compared(args.a, args.b),
                       bc |-> Compared(args.b, args.c),
                       ac |-> Compared(args.a, args.c)])
    /\ UNCHANGED <<args, driverVars>>

NextMeasures == Compare

SpecMeasures == InitMeasures /\ [][NextMeasures]_vars

-----------------------------------------------------------------------------
(* forecast_client.rs: get_time_of_day                                     *)

HourMinutes == 60
NightBandMinutes == 14
TwilightBandMinutes == 45

\* get_time_of_day with the sunset bands compared by <= instead of <.
get_time_of_day_InclusiveBands(date_time, sunrise, sunset) ==
    LET end_hour == date_time + HourMinutes IN
    IF sunset >= end_hour /\ sunrise < date_time THEN "DAY"
    ELSE IF sunrise >= end_hour \/ sunset < date_time THEN "NIGHT"
    ELSE IF sunset < end_hour THEN
        IF sunset <= date_time + NightBandMinutes THEN "NIGHT"
        ELSE IF sunset <= date_time + TwilightBandMinutes THEN "TWILIGHT"
        ELSE "DAY"
    ELSE IF sunrise < date_time + NightBandMinutes THEN "DAY"
    ELSE IF sunset < date_time + TwilightBandMinutes THEN "TWILIGHT"
    ELSE "NIGHT"

get_time_of_day(date_time, sunrise, sunset) ==
    LET end_hour == date_time + HourMinutes IN
    IF sunset >= end_hour /\ sunrise < date_time THEN "DAY"
    ELSE IF sunrise >= end_hour \/ sunset < date_time THEN "NIGHT"
    ELSE IF sunset < end_hour THEN
        IF sunset < date_time + NightBandMinutes THEN "NIGHT"
        ELSE IF sunset < date_time + TwilightBandMinutes THEN "TWILIGHT"
        ELSE "DAY"
    ELSE IF sunrise < date_time + NightBandMinutes THEN "DAY"
    ELSE IF sunset < date_time + TwilightBandMinutes THEN "TWILIGHT"
    ELSE "NIGHT"

\* Hour starts (minutes of the day) and sunrise/sunset instants: 06:00 and
\* 20:00, and every offset around an hour start where a comparison flips.
TodStarts == {300, 330, 360, 1140, 1160, 1190, 1200}
TodOffsets == {0 - 61, 0 - 60, 0 - 1, 0, 1, 13, 14, 15, 44, 45, 46, 59, 60, 61}
TodInstants(t) == {360, 1200} \cup {t + o : o \in TodOffsets}

InitTod ==
    /\ \E t \in TodStarts : \E sr \in TodInstants(t) : \E ss \in TodInstants(t) :
           args = [date_time |-> t, sunrise |-> sr, sunset |-> ss]
    /\ result = None
    /\ InitIdleDriver

Classify ==
    /\ result = None
    /\ "date_time" \in DOMAIN args
    /\ result' = Some(get_time_of_day(args.date_time, args.sunrise, args.sunset))
    /\ UNCHANGED <<args, driverVars>>

NextTod == Classify

SpecTod == InitTod /\ [][NextTod]_vars

-----------------------------------------------------------------------------
(* main.rs: FlyingSite::is_flyable                                         *)

PopLimit == 30   \* 0.3, with pop in hundredths

\* is_flyable rejecting a wind speed equal to the maximum.
is_flyable_ExclusiveMax(site, hour) ==
    ~(\/ hour.pop > PopLimit
      \/ hour.time_of_day # "DAY"
      \/ site.min_flyable_wind_degree > hour.wind_deg
      \/ hour.wind_deg > site.max_flyable_wind_degree
      \/ WindGt(site.min_flyable_wind, hour.wind_speed)
      \/ ~WindLt(hour.wind_speed, site.max_flyable_wind))

is_flyable(site, hour) ==
    ~(\/ hour.pop > PopLimit
      \/ hour.time_of_day # "DAY"
      \/ site.min_flyable_wind_degree > hour.wind_deg
      \/ hour.wind_deg > site.max_flyable_wind_degree
      \/ WindGt(site.min_flyable_wind, hour.wind_speed)
      \/ WindGt(hour.wind_speed, site.max_flyable_wind))

Site(name, wmin, wmax, dmin, dmax) ==
    [name |-> name, min_flyable_wind |-> wmin, max_flyable_wind |-> wmax,
     min_flyable_wind_degree |-> dmin, max_flyable_wind_degree |-> dmax]

Hour(time, tod, temp, wind, deg, pop) ==
    [time |-> time, time_of_day |-> tod, temperature |-> temp,
     feels_like |-> temp, wind_speed |-> wind, wind_deg |-> deg, pop |-> pop]

\* Thresholds [2, 8] m/s and [180, 270] degrees, the wind given in each unit.
FlySites ==
    {Site("ridge", MPS(20000), MPS(80000), 180, 270),
     Site("dune", KMPH(72000), KMPH(288000), 180, 270),
     Site("cliff", MPH(44739), MPH(178955), 180, 270)}

FlyHours ==
    {Hour(480, tod, C(100000), MPS(w), deg, pop) :
        tod \in {"NIGHT", "TWILIGHT", "DAY"},
        w \in {19994, 19995, 20000, 80000, 80004, 80005, 90000},
        deg \in {179, 180, 200, 270, 271},
        pop \in {10, 30, 31}}

InitFly ==
    /\ \E s \in FlySites : \E h \in FlyHours : args = [site |-> s, hour |-> h]
    /\ result = None
    /\ InitIdleDriver

CheckHour ==
    /\ result = None
    /\ "hour" \in DOMAIN args
    /\ result' = Some(is_flyable(args.site, args.hour))
    /\ UNCHANGED <<args, driverVars>>

NextFly == CheckHour

SpecFly == InitFly /\ [][NextFly]_vars

-----------------------------------------------------------------------------
(* main.rs: SiteFlyablePeriod, SiteFlyAbilityReport, prepare_report_for_site *)

DayMinutes == 1440

\* DateTime::date: the calendar day of a timestamp.
DateOf(t) == t \div DayMinutes

from_hour(hour) ==
    [start |-> hour.time,
     duration_hours |-> 1,
     wind_min |-> hour.wind_speed,
     wind_max |-> hour.wind_speed,
     wind_degree_min |-> hour.wind_deg,
     wind_degree_max |-> hour.wind_deg,
     temp_min |-> hour.temperature,
     temp_max |-> hour.temperature]

\* is_next_hour comparing against the period's start alone.
is_next_hour_SameStart(period, hour) == period.start = hour.time

\* is_next_hour adding one hour whatever the accumulated duration.
is_next_hour_OneHour(period, hour) ==
    period.start + HourMinutes = hour.time

is_next_hour(period, hour) ==
    period.start + HourMinutes * period.duration_hours = hour.time

\* add_hour with the wind_max update testing > instead of <.
add_hour_MaxReversed(period, hour) ==
    [start |-> period.start,
     duration_hours |-> period.duration_hours + 1,
     wind_min |-> IF WindGt(period.wind_min, hour.wind_speed)
                  THEN hour.wind_speed ELSE period.wind_min,
     wind_max |-> IF WindGt(period.wind_max, hour.wind_speed)
                  THEN hour.wind_speed ELSE period.wind_max,
     wind_degree_min |-> IF period.wind_degree_min > hour.wind_deg
                         THEN hour.wind_deg ELSE period.wind_degree_min,
     wind_degree_max |-> IF period.wind_degree_max < hour.wind_deg
                         THEN hour.wind_deg ELSE period.wind_degree_max,
     temp_min |-> IF TempGt(period.temp_min, hour.temperature)
                  THEN hour.temperature ELSE period.temp_min,
     temp_max |-> IF TempLt(period.temp_max, hour.temperature)
                  THEN hour.temperature ELSE period.temp_max]

add_hour(period, hour) ==
    [start |-> period.start,
     duration_hours |-> period.duration_hours + 1,
     wind_min |-> IF WindGt(period.wind_min, hour.wind_speed)
                  THEN hour.wind_speed ELSE period.wind_min,
     wind_max |-> IF WindLt(period.wind_max, hour.wind_speed)
                  THEN hour.wind_speed ELSE period.wind_max,
     wind_degree_min |-> IF period.wind_degree_min > hour.wind_deg
                         THEN hour.wind_deg ELSE period.wind_degree_min,
     wind_degree_max |-> IF period.wind_degree_max < hour.wind_deg
                         THEN hour.wind_deg ELSE period.wind_degree_max,
     temp_min |-> IF TempGt(period.temp_min, hour.temperature)
                  THEN hour.temperature ELSE period.temp_min,
     temp_max |-> IF TempLt(period.temp_max, hour.temperature)
                  THEN hour.temperature ELSE period.temp_max]

\* The loop of main.rs:135-143 over flying_hours.iter().skip(1), and the
\* push of the last period after it.
RECURSIVE MergeHours(_, _, _)
MergeHours(periods, current_period, hours) ==
    IF hours = <<>> THEN Append(periods, current_period)
    ELSE LET hour == Head(hours) IN
         IF is_next_hour(current_period, hour)
         THEN MergeHours(periods, add_hour(current_period, hour), Tail(hours))
         ELSE MergeHours(Append(periods, current_period), from_hour(hour),
                         Tail(hours))

\* The loop of main.rs:125-129.
FlyingHours(site, hourly) == SelectSeq(hourly, LAMBDA hour : is_flyable(site, hour))

\* forecasts.into_iter().find(|f| f.date == tomorrow)
RECURSIVE FindDate(_, _)
FindDate(forecasts, date) ==
    IF forecasts = <<>> THEN None
    ELSE IF Head(forecasts).date = date THEN Some(Head(forecasts))
    ELSE FindDate(Tail(forecasts), date)

\* prepare_report_for_site returning a report without periods instead of
\* None when no hour is flyable.
prepare_report_for_site_NoEmptyCheck(forecasts, site, now) ==
    IF forecasts = <<>> THEN None
    ELSE LET found == FindDate(forecasts, now + 1) IN
         IF ~IsSome(found) THEN None
         ELSE LET flying_hours == FlyingHours(site, found.some.hourly) IN
              IF flying_hours = <<>>
              THEN Some([site |-> site, periods |-> <<>>])
              ELSE Some([site |-> site,
                         periods |-> MergeHours(<<>>, from_hour(flying_hours[1]),
                                                Tail(flying_hours))])

\* now: the day number of Utc::now() in the offset of forecasts[0].
prepare_report_for_site(forecasts, site, now) ==
    IF forecasts = <<>> THEN None
    ELSE LET tomorrow == now + 1
             found == FindDate(forecasts, tomorrow)
         IN  IF ~IsSome(found) THEN None
             ELSE LET flying_hours == FlyingHours(site, found.some.hourly) IN
                  IF flying_hours = <<>> THEN None
                  ELSE Some([site |-> site,
                             periods |-> MergeHours(<<>>, from_hour(flying_hours[1]),
                                                    Tail(flying_hours))])

\* format!("{:.1}", x) of an exact value x in 1/10000 units, as an integer
\* number of tenths: the nearest tenth, an exact half to the even one.
Fmt1(x) ==
    LET t == x[1] \div 1000
        m == x[1] % 1000
    IN  IF m > 500 \/ (m = 500 /\ x[2] > 0) THEN t + 1
        ELSE IF m < 500 THEN t
        ELSE IF t % 2 = 0 THEN t ELSE t + 1

\* One "\n- Starting at ..." line of as_string: its formatted fields.
PeriodDescr(period) ==
    [time |-> <<(period.start % DayMinutes) \div HourMinutes,
                period.start % HourMinutes>>,
     duration |-> period.duration_hours,
     min_wind |-> Fmt1(miles_per_hour(period.wind_min)),
     max_wind |-> Fmt1(miles_per_hour(period.wind_max)),
     min_deg |-> period.wind_degree_min,
     max_deg |-> period.wind_degree_max,
     min_t |-> Fmt1(fahrenheit(period.temp_min)),
     max_t |-> Fmt1(fahrenheit(period.temp_max))]

\* SiteFlyAbilityReport::as_string: the heading with the site's name, then
\* one line per period, as the sequence of the pieces pushed.
as_string(report) ==
    <<[name |-> report.site.name]>>
        \o [i \in 1..Len(report.periods) |-> PeriodDescr(report.periods[i])]

-----------------------------------------------------------------------------
(* prepare_report_for_site and as_string as functions of their inputs      *)
(* (SpecReport)                                                            *)

MaxHours == 6

\* The hourly slots of tomorrow that the forecast may hold: 08:00 onwards.
HourSlots == 8..(7 + MaxHours)

\* What an hour of the forecast may look like: three flyable hours for the
\* site below, two of them within 1/1000 of each other in wind speed and two
\* in temperature, and one hour with too much wind.
HourKinds ==
    {[time_of_day |-> "DAY", temperature |-> C(100000),
      wind_speed |-> MPS(30000), wind_deg |-> 200, pop |-> 10],
     [time_of_day |-> "DAY", temperature |-> C(0 - 25000),
      wind_speed |-> MPS(50004), wind_deg |-> 250, pop |-> 30],
     [time_of_day |-> "DAY", temperature |-> C(100004),
      wind_speed |-> MPS(50000), wind_deg |-> 180, pop |-> 0],
     [time_of_day |-> "DAY", temperature |-> C(300000),
      wind_speed |-> MPS(90000), wind_deg |-> 260, pop |-> 10]}

HourOf(day, slot, kind) ==
    Hour(day * DayMinutes + slot * HourMinutes, kind.time_of_day,
         kind.temperature, kind.wind_speed, kind.wind_deg, kind.pop)

\* The hours of a day held for the slots of `present`, ascending by time.
RECURSIVE HourlyOf(_, _, _)
HourlyOf(day, present, kindOf) ==
    IF present = {} THEN <<>>
    ELSE LET slot == CHOOSE x \in present : \A y \in present : x <= y IN
         <<HourOf(day, slot, kindOf[slot])>>
             \o HourlyOf(day, present \ {slot}, kindOf)

Day(date, hourly) ==
    [date |-> date, sunrise |-> date * DayMinutes + 360,
     sunset |-> date * DayMinutes + 1200, hourly |-> hourly]

FixedDay(date) == Day(date, <<HourOf(date, 12, CHOOSE k \in HourKinds : k.pop = 0)>>)

\* get_forecast returns the days that hold hours, sorted by date.  Today is
\* day 1, so tomorrow is day 2: absent from the forecast, or the day after
\* today's, with the hours `hourly`.
ReportShapes == {"empty", "today", "around", "tomorrow"}

ForecastsOf(shape, hourly) ==
    CASE shape = "empty" -> <<>>
      [] shape = "today" -> <<FixedDay(1)>>
      [] shape = "around" -> <<FixedDay(1), FixedDay(3)>>
      [] shape = "tomorrow" -> <<FixedDay(1), Day(2, hourly), FixedDay(3)>>

ReportSite == Site("ridge", MPS(20000), MPS(80000), 180, 270)

InitReport ==
    /\ \E shape \in ReportShapes : \E present \in SUBSET HourSlots :
         \E kindOf \in [present -> HourKinds] :
           /\ (present # {}) <=> (shape = "tomorrow")
           /\ args = [forecasts |-> ForecastsOf(shape, HourlyOf(2, present, kindOf)),
                      site |-> ReportSite, now |-> 1]
    /\ result = None
    /\ InitIdleDriver

Prepare ==
    /\ result = None
    /\ "forecasts" \in DOMAIN args
    /\ result' = Some([report |->
                          prepare_report_for_site(args.forecasts, args.site, args.now)])
    /\ UNCHANGED <<args, driverVars>>

Format ==
    /\ IsSome(result)
    /\ "forecasts" \in DOMAIN args
    /\ DOMAIN result.some = {"report"}
    /\ IsSome(result.some.report)
    /\ result' = Some([report |-> result.some.report,
                       text |-> as_string(result.some.report.some)])
    /\ UNCHANGED <<args, driverVars>>

NextReport == Prepare \/ Format

SpecReport == InitReport /\ [][NextReport]_vars

-----------------------------------------------------------------------------
(* forecast_client.rs: get_forecast, from the decoded response on          *)

\* A decoded response: daily entries [dt, sunrise, sunset] and hourly
\* entries [dt, temp, wind_speed, wind_deg, pop], every instant in minutes
\* of the response's own offset (tz_offset.timestamp(..) of lines 97-111).
DailyDates(raw) == {DateOf(raw.daily[i].dt) : i \in DOMAIN raw.daily}

\* date_to_forecast.insert: the last daily entry of a date is the one kept.
DailyOf(raw, date) ==
    LET i == CHOOSE i \in DOMAIN raw.daily :
                 /\ DateOf(raw.daily[i].dt) = date
                 /\ \A j \in DOMAIN raw.daily :
                        DateOf(raw.daily[j].dt) = date => j <= i
    IN  raw.daily[i]

\* Lines 111-123: one HourWeatherForecast of an hourly entry.
HourForecast(raw, h) ==
    LET day == DailyOf(raw, DateOf(h.dt)) IN
    [time |-> h.dt,
     time_of_day |-> get_time_of_day(h.dt, day.sunrise, day.sunset),
     temperature |-> C(h.temp),
     feels_like |-> C(h.feels_like),
     wind_speed |-> MPS(h.wind_speed),
     wind_deg |-> h.wind_deg,
     pop |-> h.pop]

\* The hourly entries of one date, in the response's order.
DayForecast(raw, date) ==
    LET mine == SelectSeq(raw.hourly, LAMBDA h : DateOf(h.dt) = date)
        day == DailyOf(raw, date)
    IN  [date |-> date, sunrise |-> day.sunrise, sunset |-> day.sunset,
         hourly |-> [i \in 1..Len(mine) |-> HourForecast(raw, mine[i])]]

\* The days of `dates` in ascending order (sort_by_key, line 131).
RECURSIVE SortedDays(_, _)
SortedDays(raw, dates) ==
    IF dates = {} THEN <<>>
    ELSE LET d == CHOOSE x \in dates : \A y \in dates : x <= y IN
         <<DayForecast(raw, d)>> \o SortedDays(raw, dates \ {d})

\* get_mut(..).unwrap() of line 112 panics for an hour of a date without a
\* daily entry.
ForecastPanics(raw) ==
    \E i \in DOMAIN raw.hourly : DateOf(raw.hourly[i].dt) \notin DailyDates(raw)

\* Lines 94-132, when no unwrap panics: the days that hold hours, by date.
get_forecast(raw) ==
    SortedDays(raw, {d \in DailyDates(raw) :
                        \E i \in DOMAIN raw.hourly : DateOf(raw.hourly[i].dt) = d})

-----------------------------------------------------------------------------
(* main.rs: main, check_sites, send_notifications                          *)

NSites == 2
MaxUsers == 2

\* The sites a configuration may list.
SitePool ==
    {Site("ridge", MPS(20000), MPS(80000), 180, 270),
     Site("dune", KMPH(72000), KMPH(200000), 90, 270),
     Site("cliff", MPH(100000), MPH(150000), 0, 359)}

\* Lists of distinct sites of the pool, up to NSites long.
RECURSIVE SiteLists(_)
SiteLists(n) ==
    IF n = 0 THEN {<<>>}
    ELSE LET shorter == SiteLists(n - 1) IN
         shorter \cup {Append(l, s) : l \in {x \in shorter : Len(x) = n - 1},
                                      s \in SitePool}

ConfigSites == {l \in SiteLists(NSites) :
                   \A i, j \in DOMAIN l : i # j => l[i] # l[j]}

\* The responses the forecast service may give on day 1: daily entries for
\* days 1 and 2 (sunrise at 06:00 or 08:20, sunset at 20:00), an hour of
\* today, any of 08:00 and 09:00 of tomorrow, and possibly an hour of day 3,
\* for which the response has no daily entry.
RawHourKinds ==
    {[temp |-> 100000, feels_like |-> 90000, wind_speed |-> 30000,
      wind_deg |-> 200, pop |-> 10],
     [temp |-> 0, feels_like |-> 0 - 20000, wind_speed |-> 50000,
      wind_deg |-> 100, pop |-> 20]}

RawHour(dt, kind) ==
    [dt |-> dt, temp |-> kind.temp, feels_like |-> kind.feels_like,
     wind_speed |-> kind.wind_speed, wind_deg |-> kind.wind_deg, pop |-> kind.pop]

RawDaily(date, sunrise) ==
    [dt |-> date * DayMinutes + 720, sunrise |-> date * DayMinutes + sunrise,
     sunset |-> date * DayMinutes + 1200]

RawSlotChoices == {None} \cup {Some(k) : k \in RawHourKinds}

RawForecastOf(sunrise, at8, at9, stray) ==
    LET k1 == CHOOSE k \in RawHourKinds : k.pop = 10 IN
    [daily |-> <<RawDaily(1, sunrise), RawDaily(2, sunrise)>>,
     hourly |-> <<RawHour(1 * DayMinutes + 1380, k1)>>
                \o (IF IsSome(at8) THEN <<RawHour(2 * DayMinutes + 480, at8.some)>>
                    ELSE <<>>)
                \o (IF IsSome(at9) THEN <<RawHour(2 * DayMinutes + 540, at9.some)>>
                    ELSE <<>>)
                \o (IF stray THEN <<RawHour(3 * DayMinutes, k1)>> ELSE <<>>)]

\* send_notifications, lines 167-170, pushing the reports last to first.
BuildMessage_Reversed(rs) ==
    IF rs = <<>> THEN <<>>
    ELSE LET text[i \in 0..Len(rs)] ==
                 IF i = 0 THEN <<>> ELSE as_string(rs[i]) \o text[i - 1]
         IN  text[Len(rs)]

\* send_notifications, lines 167-170: the reports' texts pushed in order.
BuildMessage(rs) ==
    LET text[i \in 0..Len(rs)] ==
            IF i = 0 THEN <<>> ELSE text[i - 1] \o as_string(rs[i])
    IN  text[Len(rs)]

Init ==
    /\ args = None
    /\ result = None
    /\ pc = "check_sites"
    /\ sites \in ConfigSites
    /\ chat_ids \in {[i \in 1..n |-> i] : n \in 0..MaxUsers}
    /\ today = 1
    /\ site_idx = 1
    /\ reports = <<>>
    /\ message = <<>>
    /\ user_idx = 0
    /\ log = <<>>

\* check_sites, line 153: the request for the next site is sent and awaited.
FetchStart ==
    /\ pc = "check_sites"
    /\ site_idx <= Len(sites)
    /\ pc' = "awaiting"
    /\ log' = Append(log, [ev |-> "fetch", site |-> site_idx])
    /\ UNCHANGED <<args, result, sites, chat_ids, today, site_idx, reports,
                   message, user_idx>>

\* Lines 153-157: the response arrives and decodes; the forecast is built,
\* the site's report prepared and, when there is one, pushed.
FetchOk ==
    /\ pc = "awaiting"
    /\ \E sunrise \in {360, 500} : \E at8 \in RawSlotChoices :
         \E at9 \in RawSlotChoices :
           LET raw == RawForecastOf(sunrise, at8, at9, FALSE)
               report == prepare_report_for_site(get_forecast(raw),
                                                 sites[site_idx], today)
           IN  /\ ~ForecastPanics(raw)
               /\ reports' = IF IsSome(report) THEN Append(reports, report.some)
                             ELSE reports
               /\ log' = log \o <<[ev |-> "fetched", site |-> site_idx],
                                  [ev |-> "report", site |-> site_idx,
                                   report |-> report]>>
    /\ site_idx' = site_idx + 1
    /\ pc' = "check_sites"
    /\ UNCHANGED <<args, result, sites, chat_ids, today, message, user_idx>>

\* Line 153, `?`: the request or the decoding fails; check_sites and main
\* return the error.
FetchErr ==
    /\ pc = "awaiting"
    /\ pc' = "failed"
    /\ UNCHANGED <<args, result, sites, chat_ids, today, site_idx, reports,
                   message, user_idx, log>>

\* Line 112: the response holds an hour of a date it has no daily entry for.
FetchPanic ==
    /\ pc = "awaiting"
    /\ \E sunrise \in {360, 500} : \E at8 \in RawSlotChoices :
         ForecastPanics(RawForecastOf(sunrise, at8, None, TRUE))
    /\ pc' = "panicked"
    /\ UNCHANGED <<args, result, sites, chat_ids, today, site_idx, reports,
                   message, user_idx, log>>

\* Lines 159, 199-203 and 167-171: check_sites returns the reports; without
\* reports main is done, otherwise the message is built and the recipients
\* are gone through.
CheckSitesReturn ==
    /\ pc = "check_sites"
    /\ site_idx > Len(sites)
    /\ IF reports = <<>>
       THEN /\ pc' = "done"
            /\ UNCHANGED <<message, user_idx>>
       ELSE /\ message' = BuildMessage(reports)
            /\ user_idx' = 1
            /\ pc' = IF chat_ids = <<>> THEN "done" ELSE "notify"
    /\ UNCHANGED <<args, result, sites, chat_ids, today, site_idx, reports, log>>

\* Line 172: notify is called for the next recipient and succeeds.
NotifyOk ==
    /\ pc = "notify"
    /\ log' = Append(log, [ev |-> "notify", user |-> chat_ids[user_idx],
                           text |-> message])
    /\ user_idx' = user_idx + 1
    /\ pc' = IF user_idx = Len(chat_ids) THEN "done" ELSE "notify"
    /\ UNCHANGED <<args, result, sites, chat_ids, today, site_idx, reports,
                   message>>

\* Line 172, `?`: notify is called for the next recipient and fails.
NotifyErr ==
    /\ pc = "notify"
    /\ log' = Append(log, [ev |-> "notify", user |-> chat_ids[user_idx],
                           text |-> message])
    /\ pc' = "failed"
    /\ UNCHANGED <<args, result, sites, chat_ids, today, site_idx, reports,
                   message, user_idx>>

Next ==
    \/ FetchStart
    \/ FetchOk
    \/ FetchErr
    \/ FetchPanic
    \/ CheckSitesReturn
    \/ NotifyOk
    \/ NotifyErr

Spec == Init /\ [][Next]_vars

-----------------------------------------------------------------------------
(* Properties                                                              *)

\* The canonical-unit value of a measure times 1000, rounded.
R(m) == Round1000(Canonical(m))

\* C9: for any measures a, b (and c) of one type, a == b iff R(a) = R(b),
\* a < b iff R(a) < R(b), a > b iff R(a) > R(b); hence exactly one of the
\* three holds for every pair, and == and < are transitive.
C9_OrderIsRoundedOrder ==
    (IsSome(result) /\ "a" \in DOMAIN args) =>
        LET r == result.some
            Agrees(x, y, c) ==
                /\ c.eq <=> (R(x) = R(y))
                /\ c.lt <=> (R(x) < R(y))
                /\ c.gt <=> (R(x) > R(y))
                /\ Cardinality({k \in {"eq", "lt", "gt"} : c[k]}) = 1
        IN  /\ Agrees(args.a, args.b, r.ab)
            /\ Agrees(args.b, args.c, r.bc)
            /\ Agrees(args.a, args.c, r.ac)
            /\ (r.ab.lt /\ r.bc.lt) => r.ac.lt
            /\ (r.ab.eq /\ r.bc.eq) => r.ac.eq

\* C9 witness: a and b differ before rounding, in different units, and
\* compare equal, while b < c although both are within 1/1000 of each other.
C9_Witness ==
    /\ IsSome(result) /\ "a" \in DOMAIN args
    /\ args.a = KMPH(72000) /\ args.b = MPS(20004) /\ args.c = KMPH(72018)
    /\ Canonical(args.a) # Canonical(args.b)
    /\ result.some.ab.eq /\ result.some.bc.lt /\ result.some.ac.lt

\* The phase the sunrise bands of the specification give.
SunrisePhase(t, sunrise) ==
    IF sunrise < t THEN "DAY"
    ELSE IF sunrise >= t + 60 THEN "NIGHT"
    ELSE IF sunrise < t + 14 THEN "DAY"
    ELSE IF sunrise < t + 45 THEN "TWILIGHT"
    ELSE "NIGHT"

\* C4: for every hour start t whose sunset is at or after t+1h, the phase is
\* Day when sunrise < t, Night when sunrise >= t+1h, and for sunrise in
\* [t, t+1h): Day below t+14min, Twilight below t+45min, Night from t+45min.
C4_SunriseBands ==
    (IsSome(result) /\ "date_time" \in DOMAIN args
        /\ args.sunset >= args.date_time + 60) =>
        result.some = SunrisePhase(args.date_time, args.sunrise)

\* The phase the sunset bands of the specification give.
SunsetPhase(t, sunset) ==
    IF sunset >= t + 60 THEN "DAY"
    ELSE IF sunset < t THEN "NIGHT"
    ELSE IF sunset < t + 14 THEN "NIGHT"
    ELSE IF sunset < t + 45 THEN "TWILIGHT"
    ELSE "DAY"

\* C5: for every hour start t with sunrise < t, the phase is Day when
\* sunset >= t+1h, Night when sunset < t, and for sunset in [t, t+1h): Night
\* below t+14min, Twilight below t+45min, Day from t+45min; with sunrise
\* 06:00 and sunset 20:00, 19:50 is Night, 19:20 Twilight and 19:00 Day.
C5_SunsetBands ==
    (IsSome(result) /\ "date_time" \in DOMAIN args) =>
        /\ args.sunrise < args.date_time =>
               result.some = SunsetPhase(args.date_time, args.sunset)
        /\ (args.sunrise = 360 /\ args.sunset = 1200) =>
               /\ args.date_time = 1190 => result.some = "NIGHT"
               /\ args.date_time = 1160 => result.some = "TWILIGHT"
               /\ args.date_time = 1140 => result.some = "DAY"

\* C5 witness: hour start 19:20, sunrise 06:00, sunset 20:00 is classified,
\* as Twilight.
C5_Witness ==
    /\ IsSome(result) /\ "date_time" \in DOMAIN args
    /\ args.date_time = 1160 /\ args.sunrise = 360 /\ args.sunset = 1200
    /\ result.some = "TWILIGHT"

\* C3: an hour is flyable iff pop <= 0.3, the phase is Day, the wind
\* direction is within the site's degrees inclusive and the wind speed is
\* within the site's wind range inclusive under the measure ordering; wind
\* 9 m/s against [2, 8] m/s with degree 200, Day, pop 0.1 is not flyable.
C3_FlyableIffAllFour ==
    (IsSome(result) /\ "hour" \in DOMAIN args) =>
        LET s == args.site
            h == args.hour
        IN  /\ result.some <=>
                  /\ h.pop <= 30
                  /\ h.time_of_day = "DAY"
                  /\ s.min_flyable_wind_degree <= h.wind_deg
                  /\ h.wind_deg <= s.max_flyable_wind_degree
                  /\ R(s.min_flyable_wind) <= R(h.wind_speed)
                  /\ R(h.wind_speed) <= R(s.max_flyable_wind)
            /\ (h.wind_speed = MPS(90000) /\ h.wind_deg = 200
                  /\ h.time_of_day = "DAY" /\ h.pop = 10) => ~result.some

\* C3 witness: the hour with wind 9 m/s, degree 200, Day, pop 0.1 has been
\* passed to is_flyable with [2, 8] m/s, [180, 270] degrees and rejected.
C3_Witness ==
    /\ IsSome(result) /\ "hour" \in DOMAIN args
    /\ args.site = Site("ridge", MPS(20000), MPS(80000), 180, 270)
    /\ args.hour = Hour(480, "DAY", C(100000), MPS(90000), 200, 10)
    /\ result.some = FALSE

\* The inputs and the outcome of a finished prepare_report_for_site call.
Prepared == IsSome(result) /\ "forecasts" \in DOMAIN args
Report == result.some.report
Periods == Report.some.periods

\* The hours of the forecast's day dated tomorrow, and those passing is_flyable.
TomorrowDays == {d \in Range(args.forecasts) : d.date = args.now + 1}
TomorrowHours == UNION {Range(d.hourly) : d \in TomorrowDays}
FlyableHours == {h \in TomorrowHours : is_flyable(args.site, h)}
FlyableTimes == {h.time : h \in FlyableHours}

\* The hours of `fly` merged into period p: those within its span.
MergedHours(fly, p) ==
    {h \in fly : p.start <= h.time /\ h.time < p.start + 60 * p.duration_hours}

RECURSIVE SumDurations(_)
SumDurations(ps) ==
    IF ps = <<>> THEN 0 ELSE Head(ps).duration_hours + SumDurations(Tail(ps))

StartAndDuration(ps) ==
    [i \in 1..Len(ps) |-> <<ps[i].start % 1440, ps[i].duration_hours>>]

\* C1: a period opens at the first flyable hour; an hour extends the current
\* period iff it is the hour at start + duration, and otherwise closes it and
\* opens the next; the last period is emitted.  So each period is a run of
\* consecutive flyable hours that no flyable hour precedes or follows
\* directly, every flyable hour is in exactly one period, the durations sum
\* to the number of flyable hours, and 08:00, 09:00, 10:00, 12:00, 13:00
\* give {08:00, 3} and {12:00, 2}.
C1_PeriodsAreRuns ==
    (Prepared /\ IsSome(Report)) =>
        LET fly == FlyableHours
            times == {h.time : h \in fly}
            ps == Periods
        IN  /\ ps[1].start \in times
            /\ \A t \in times : ps[1].start <= t
            /\ \A i \in 1..Len(ps) :
                 LET p == ps[i] IN
                 /\ \A k \in 0..(p.duration_hours - 1) : p.start + 60 * k \in times
                 /\ p.start + 60 * p.duration_hours \notin times
                 /\ p.start - 60 \notin times
            /\ \A h \in fly :
                 Cardinality({i \in 1..Len(ps) : h \in MergedHours(fly, ps[i])}) = 1
            /\ SumDurations(ps) = Cardinality(fly)
            /\ {t % 1440 : t \in times} = {480, 540, 600, 720, 780} =>
                   StartAndDuration(ps) = <<(<<480, 3>>), (<<720, 2>>)>>

\* C1 witness: the flyable hours are 08:00, 09:00, 10:00, 12:00, 13:00 and the
\* report holds the two periods {08:00, 3} and {12:00, 2}.
C1_Witness ==
    /\ Prepared /\ IsSome(Report)
    /\ {t % 1440 : t \in FlyableTimes} = {480, 540, 600, 720, 780}
    /\ StartAndDuration(Periods) = <<(<<480, 3>>), (<<720, 2>>)>>

\* C2: the periods of a report are in start-time order, do not overlap, and
\* successive periods are separated by at least one hour that is missing
\* or not flyable: the next start is later than the previous start plus the
\* previous duration, and the hour right after a period is not flyable.
C2_PeriodsOrderedWithGaps ==
    (Prepared /\ IsSome(Report)) =>
        LET times == FlyableTimes
            ps == Periods
        IN  \A i \in 1..(Len(ps) - 1) :
                LET p == ps[i]
                    n == ps[i + 1]
                IN  /\ p.start <= n.start
                    /\ p.start + 60 * p.duration_hours <= n.start
                    /\ n.start > p.start + 60 * p.duration_hours
                    /\ p.start + 60 * p.duration_hours \notin times

\* C2 witness: a report with three periods, one gap being an hour the
\* forecast holds (not flyable) and one an hour it does not hold.
C2_Witness ==
    /\ Prepared /\ IsSome(Report)
    /\ Len(Periods) = 3
    /\ \E h \in TomorrowHours : h.time = Periods[1].start + 60 * Periods[1].duration_hours
    /\ ~\E h \in TomorrowHours : h.time = Periods[2].start + 60 * Periods[2].duration_hours

\* C6: prepare_report_for_site returns None exactly when the forecast list
\* is empty, or holds no day dated tomorrow, or tomorrow's day has no hour
\* passing is_flyable; otherwise a report with at least one period, each of
\* duration >= 1.
C6_NoneIffNothingFlyable ==
    Prepared =>
        /\ ~IsSome(Report) <=>
              \/ args.forecasts = <<>>
              \/ TomorrowDays = {}
              \/ FlyableHours = {}
        /\ IsSome(Report) =>
              /\ Len(Periods) >= 1
              /\ \A i \in 1..Len(Periods) : Periods[i].duration_hours >= 1

\* C6 witness: tomorrow's day holds hours, none of them flyable, and the
\* result is None.
C6_Witness ==
    /\ Prepared
    /\ TomorrowHours # {} /\ FlyableHours = {}
    /\ Report = None

\* C10: in every period of a report, each of wind_min, wind_max,
\* wind_degree_min, wind_degree_max, temp_min, temp_max is a value of one of
\* the hours merged into that period, the minima are <= and the maxima >=
\* the value of every merged hour (measure ordering for wind speed and
\* temperature), and a one-hour period has min = max for all three.
C10_PeriodStatistics ==
    (Prepared /\ IsSome(Report)) =>
        LET fly == FlyableHours
            ps == Periods
        IN  \A i \in 1..Len(ps) :
                LET p == ps[i]
                    hs == MergedHours(fly, p)
                IN  /\ p.wind_min \in {h.wind_speed : h \in hs}
                    /\ p.wind_max \in {h.wind_speed : h \in hs}
                    /\ p.wind_degree_min \in {h.wind_deg : h \in hs}
                    /\ p.wind_degree_max \in {h.wind_deg : h \in hs}
                    /\ p.temp_min \in {h.temperature : h \in hs}
                    /\ p.temp_max \in {h.temperature : h \in hs}
                    /\ \A h \in hs :
                         /\ R(p.wind_min) <= R(h.wind_speed)
                         /\ R(p.wind_max) >= R(h.wind_speed)
                         /\ p.wind_degree_min <= h.wind_deg
                         /\ p.wind_degree_max >= h.wind_deg
                         /\ R(p.temp_min) <= R(h.temperature)
                         /\ R(p.temp_max) >= R(h.temperature)
                    /\ p.duration_hours = 1 =>
                         /\ p.wind_min = p.wind_max
                         /\ p.wind_degree_min = p.wind_degree_max
                         /\ p.temp_min = p.temp_max

\* C10 witness: a period of three hours with three different wind speeds,
\* two of them within 1/1000, next to a one-hour period.
C10_Witness ==
    /\ Prepared /\ IsSome(Report)
    /\ Len(Periods) = 2
    /\ Periods[1].duration_hours = 3
    /\ Cardinality({h.wind_speed : h \in MergedHours(FlyableHours, Periods[1])}) = 3
    /\ Periods[2].duration_hours = 1

\* Celsius to Fahrenheit, c * 1.8 + 32, of a Celsius temperature.
CelsiusToFahrenheit(t) == <<((9 * t.v) \div 5) + 320000, (9 * t.v) % 5>>

\* C8: the formatter shows each period's temperature range in Fahrenheit:
\* for a temperature of c degrees Celsius the value shown is c * 1.8 + 32
\* to one decimal (0 C as 32.0F, 10 C as 50.0F).
C8_ShownInFahrenheit ==
    (Prepared /\ "text" \in DOMAIN result.some) =>
        \A i \in 1..Len(Periods) :
            /\ result.some.text[i + 1].min_t =
                   Fmt1(CelsiusToFahrenheit(Periods[i].temp_min))
            /\ result.some.text[i + 1].max_t =
                   Fmt1(CelsiusToFahrenheit(Periods[i].temp_max))

\* The reports the log shows as produced, in the order of their events.
ReportsLogged(upto) ==
    LET made == SelectSeq(SubSeq(log, 1, upto),
                          LAMBDA e : e.ev = "report" /\ IsSome(e.report))
    IN  [i \in 1..Len(made) |-> made[i].report.some]

RECURSIVE ConcatText(_)
ConcatText(rs) ==
    IF rs = <<>> THEN <<>> ELSE as_string(Head(rs)) \o ConcatText(Tail(rs))

\* C7: sites are processed one at a time in configuration order: the k-th
\* fetch is for the k-th site and starts only after the report of the site
\* before it, a fetch completes before its site's report is computed; notify
\* is called only after the fetch of every site has succeeded and at least
\* one report was produced; the reports are those of the sites that have
\* one, in site order, and every message sent is their texts concatenated
\* in that order, the recipients being taken in the order of chat_ids.
C7_DriverOrdering ==
    /\ \A k \in DOMAIN log :
         LET e == log[k] IN
         /\ e.ev = "fetch" =>
              /\ e.site = 1 + Cardinality({j \in 1..(k - 1) : log[j].ev = "fetch"})
              /\ k > 1 => (log[k - 1].ev = "report" /\ log[k - 1].site = e.site - 1)
         /\ e.ev = "fetched" =>
              (k > 1 /\ log[k - 1].ev = "fetch" /\ log[k - 1].site = e.site)
         /\ e.ev = "report" =>
              /\ k > 1 /\ log[k - 1].ev = "fetched" /\ log[k - 1].site = e.site
              /\ IsSome(e.report) => e.report.some.site = sites[e.site]
         /\ e.ev = "notify" =>
              /\ \A i \in DOMAIN sites :
                   \E j \in 1..(k - 1) : log[j].ev = "fetched" /\ log[j].site = i
              /\ \E j \in 1..(k - 1) : log[j].ev = "report" /\ IsSome(log[j].report)
              /\ e.text = ConcatText(ReportsLogged(k))
              /\ LET n == 1 + Cardinality({j \in 1..(k - 1) : log[j].ev = "notify"})
                 IN  n \in DOMAIN chat_ids /\ e.user = chat_ids[n]
    /\ reports = ReportsLogged(Len(log))

\* C7 witness: two sites, the first without a report and the second with
\* one, and both recipients have been sent the message.
C7_Witness ==
    /\ pc = "done"
    /\ Len(sites) = 2 /\ Len(chat_ids) = 2
    /\ \E j \in DOMAIN log :
         log[j].ev = "report" /\ log[j].site = 1 /\ ~IsSome(log[j].report)
    /\ Len(reports) = 1
    /\ Cardinality({j \in DOMAIN log : log[j].ev = "notify"}) = 2

=============================================================================
